---- MODULE Spec2Model ----
(***************************************************************************)
(* Model of solve_linear_program and of its caller test_program in         *)
(* code_file.ipynb: the construction of the multi-commodity routing LP     *)
(* (flow variables, flow-conservation and capacity constraints, one of     *)
(* three objectives), the call of the solver and the interpretation of     *)
(* its terminal status; and of save_to_csv and read_instance, which write  *)
(* an instance to a CSV file and read it back.                             *)
(*                                                                         *)
(* Abstractions.  Coefficients are exact fractions <<num, den>> (Python    *)
(* computes demand / capacity in floating point).  The LP engine is        *)
(* external: its terminal status is any status that the built model does   *)
(* not exclude, the values var.x are known by their support (the keys      *)
(* with var.x > 0) and ObjVal by its sign.  A CSV file is the sequence of  *)
(* its rows, a row the sequence of its cells, a cell a string.             *)
(***************************************************************************)
EXTENDS Integers, Sequences, FiniteSets, TLC

\* ------------------------------------------------------------------ bounds
MaxNodes    == 3   \* the graph has the nodes 0 .. n-1 with n <= MaxNodes
MaxNodeId   == 2   \* demand endpoints are node identifiers 0 .. MaxNodeId
MaxArcs     == 2   \* number of arcs of the graph
MaxDemands  == 2   \* number of entries of traffic_demand
MaxCapacity == 2   \* capacities are 1 .. MaxCapacity
MaxCost     == 1   \* costs are 0 .. MaxCost
MaxVolume   == 2   \* demand volumes are 1 .. MaxVolume
MaxSubset   == 2   \* number of nodes of the subset S

\* GRB.INFINITY, the upper bound of an unbounded variable, larger than any
\* number the model computes
GRB_INFINITY == 1000000

VARIABLES G, traffic_demand, objective, pc, x, model, modelsCreated,
          result, caller,
          S, file, cpc, section, rowNo, readG, readDemand, readS, readResult

\* the subset S, the CSV file and the call of read_instance
Persistence == <<S, file, cpc, section, rowNo, readG, readDemand, readS, readResult>>

vars == <<G, traffic_demand, objective, pc, x, model, modelsCreated,
          result, caller, Persistence>>

\* ----------------------------------------------------------------- helpers
RECURSIVE SetToSeq(_)
\* iteration order of a Python dict / of G.edges: some fixed order
SetToSeq(T) ==
    IF T = {} THEN <<>>
    ELSE LET e == CHOOSE e \in T : TRUE IN <<e>> \o SetToSeq(T \ {e})

Range(s) == {s[k] : k \in DOMAIN s}

Frac(n, d) == <<n, d>>
Num(f) == f[1]

OrderedPairs(T) == {p \in T \X T : p[1] # p[2]}

\* ------------------------------------------------------------------ inputs
ArcSets(n) == {A \in SUBSET OrderedPairs(0 .. n - 1) : Cardinality(A) <= MaxArcs}

Graphs ==
    UNION {UNION {{[nodes |-> 0 .. n - 1, arcs |-> A, capacity |-> cap, cost |-> c] :
                      cap \in [A -> 1 .. MaxCapacity], c \in [A -> 0 .. MaxCost]} :
                  A \in ArcSets(n)} :
           n \in 0 .. MaxNodes}

DemandKeySets ==
    {D \in SUBSET OrderedPairs(0 .. MaxNodeId) : Cardinality(D) <= MaxDemands}

TrafficDemands == UNION {[D -> 1 .. MaxVolume] : D \in DemandKeySets}

\* the selectors tested by the code, those of the documentation of
\* test_program and those of the design text
CodeObjectives == {"cost", "max_utlilization", "avg_utilisation"}
DocstringObjectives == {"cost", "max_utlilization", "avg_utlilization"}
SpecObjectives == {"cost", "max_utilization", "avg_utilization"}
\* a selector that nobody documents
UnknownObjectives == {"latency"}
Objectives ==
    CodeObjectives \cup DocstringObjectives \cup SpecObjectives \cup UnknownObjectives

\* --------------------------------------------------------- graph accessors
NodeList == [k \in 1 .. Cardinality(G.nodes) |-> k - 1]
EdgeList == SetToSeq(G.arcs)
DemandList == SetToSeq(DOMAIN traffic_demand)

in_edges(node) == {a \in G.arcs : a[2] = node}
out_edges(node) == {a \in G.arcs : a[1] = node}
number_of_edges == Cardinality(G.arcs)

Key(d, a) == <<d[1], d[2], a[1], a[2]>>
KeyDemand(k) == <<k[1], k[2]>>
KeyArc(k) == <<k[3], k[4]>>

\* ------------------------------------------------------------------- model
EmptyGraph == [nodes |-> {}, arcs |-> {}, capacity |-> <<>>, cost |-> <<>>]

\* no file is written and read_instance is not called
NoPersistence ==
    /\ S = <<>>
    /\ file = <<>>
    /\ cpc = "idle"
    /\ section = "arcs"
    /\ rowNo = 1
    /\ readG = EmptyGraph
    /\ readDemand = <<>>
    /\ readS = <<>>
    /\ readResult = [how |-> "pending", tag |-> ""]

EmptyModel ==
    [vars |-> <<>>, constrs |-> <<>>, obj |-> <<>>, status |-> "LOADED",
     optimizeCalls |-> 0, iisCalls |-> 0]

Pending == [how |-> "pending", tag |-> "", solution |-> {}, objval |-> "zero"]
Raise(exc) == [how |-> "raise", tag |-> exc, solution |-> {}, objval |-> "zero"]
ReturnNone == [how |-> "return", tag |-> "None", solution |-> {}, objval |-> "zero"]
ReturnPair(sol, val) == [how |-> "return", tag |-> "pair", solution |-> sol, objval |-> val]

\* model.addVar(lb=0, ub=1, name=x_i_j_u_v) for every demand and every arc
FlowVars ==
    LET D == DemandList
        E == EdgeList
        n == Len(E)
    IN [k \in 1 .. Len(D) * n |->
           [kind |-> "x", key |-> Key(D[((k - 1) \div n) + 1], E[((k - 1) % n) + 1]),
            lb |-> 0, ub |-> 1]]

\* inflow - outflow, or outflow - inflow, over the variables of demand d
FlowBalance(d, node, outMinusIn) ==
    LET inc == in_edges(node) \cup out_edges(node)
        sgn == IF outMinusIn THEN 1 ELSE -1
    IN [k \in {Key(d, a) : a \in inc} |->
           Frac(sgn * ((IF KeyArc(k)[1] = node THEN 1 ELSE 0)
                       - (IF KeyArc(k)[2] = node THEN 1 ELSE 0)), 1)]

\* the destination written like the origin, outflow - inflow == 1
ConservationConstr_SameOrientation(d, node) ==
    IF node = d[1] \/ node = d[2] THEN
        [kind |-> IF node = d[1] THEN "flow_src" ELSE "flow_dst",
         key |-> <<d[1], d[2], node>>,
         coef |-> FlowBalance(d, node, TRUE), ucoef |-> 0, sense |-> "==", rhs |-> 1]
    ELSE
        [kind |-> "flow_mid", key |-> <<d[1], d[2], node>>,
         coef |-> FlowBalance(d, node, FALSE), ucoef |-> 0, sense |-> "==", rhs |-> 0]

ConservationConstr(d, node) ==
    IF node = d[1] THEN
        [kind |-> "flow_src", key |-> <<d[1], d[2], node>>,
         coef |-> FlowBalance(d, node, TRUE), ucoef |-> 0, sense |-> "==", rhs |-> 1]
    ELSE IF node = d[2] THEN
        [kind |-> "flow_dst", key |-> <<d[1], d[2], node>>,
         coef |-> FlowBalance(d, node, FALSE), ucoef |-> 0, sense |-> "==", rhs |-> 1]
    ELSE
        [kind |-> "flow_mid", key |-> <<d[1], d[2], node>>,
         coef |-> FlowBalance(d, node, FALSE), ucoef |-> 0, sense |-> "==", rhs |-> 0]

ConservationConstrs ==
    LET D == DemandList
        N == NodeList
        n == Len(N)
    IN [k \in 1 .. Len(D) * n |->
           ConservationConstr(D[((k - 1) \div n) + 1], N[((k - 1) % n) + 1])]

\* sum(demand * x[i,j,u,v] for (i,j), demand in traffic_demand.items())
ArcLoad(a) == [k \in {Key(d, a) : d \in DOMAIN traffic_demand} |->
                  Frac(traffic_demand[KeyDemand(k)], 1)]

\* the cost attribute read in place of the capacity
CapacityRhs_Cost(a) == G.cost[a]

CapacityRhs(a) == G.capacity[a]

CapacityConstr(a) ==
    [kind |-> "capacity", key |-> <<a[1], a[2]>>,
     coef |-> ArcLoad(a), ucoef |-> 0, sense |-> "<=", rhs |-> CapacityRhs(a)]

CapacityConstrs == [k \in 1 .. Len(EdgeList) |-> CapacityConstr(EdgeList[k])]

\* A comparison whose two sides hold no variable (sum() of nothing is the
\* int 0) is a Python bool and not a constraint expression.
IsBool(c) == DOMAIN c.coef = {} /\ c.ucoef = 0

FirstBool(cs) ==
    IF \E k \in DOMAIN cs : IsBool(cs[k])
    THEN CHOOSE k \in DOMAIN cs : IsBool(cs[k]) /\ \A l \in 1 .. k - 1 : ~IsBool(cs[l])
    ELSE 0

\* ---------------------------------------------------------------- actions
Init ==
    /\ G \in Graphs
    /\ traffic_demand \in TrafficDemands
    /\ objective \in Objectives
    /\ pc = "call"
    /\ x = {}
    /\ model = EmptyModel
    /\ modelsCreated = 0
    /\ result = Pending
    /\ caller = "calling"
    /\ NoPersistence

Inputs == <<G, traffic_demand, objective>>

\* model = Model("Routing")
CreateModel ==
    /\ pc = "call"
    /\ model' = EmptyModel
    /\ modelsCreated' = modelsCreated + 1
    /\ pc' = "variables"
    /\ UNCHANGED <<Inputs, Persistence, x, result, caller>>

AddVariables ==
    /\ pc = "variables"
    /\ x' = {v.key : v \in Range(FlowVars)}
    /\ model' = [model EXCEPT !.vars = @ \o FlowVars]
    /\ pc' = "conservation"
    /\ UNCHANGED <<Inputs, Persistence, modelsCreated, result, caller>>

\* model.addConstr over a list of constraints: all of them are added, or
\* the backend refuses the first one that is a Python bool
AddAll(cs, next) ==
    /\ model' = [model EXCEPT !.constrs = @ \o cs]
    /\ pc' = next
    /\ UNCHANGED <<Inputs, Persistence, x, modelsCreated, result, caller>>

RefuseBool(cs) ==
    /\ FirstBool(cs) # 0
    /\ model' = [model EXCEPT !.constrs = @ \o SubSeq(cs, 1, FirstBool(cs) - 1)]
    /\ result' = Raise("GurobiError")
    /\ pc' = "done"
    /\ UNCHANGED <<Inputs, Persistence, x, modelsCreated, caller>>

AddConservation ==
    /\ pc = "conservation"
    /\ \/ AddAll(ConservationConstrs, "capacity")
       \/ RefuseBool(ConservationConstrs)

AddCapacity ==
    /\ pc = "capacity"
    /\ \/ AddAll(CapacityConstrs, "objective")
       \/ RefuseBool(CapacityConstrs)

\* objective == "cost": sum of x * demand * G[u][v]['cost'], minimised
CostCoef(k) == Frac(traffic_demand[KeyDemand(k)] * G.cost[KeyArc(k)], 1)

SetObjectiveCost ==
    /\ pc = "objective"
    /\ objective = "cost"
    /\ model' = [model EXCEPT !.obj =
                    <<[sense |-> "MINIMIZE", coef |-> [k \in x |-> CostCoef(k)], ucoef |-> 0]>>]
    /\ pc' = "optimize"
    /\ UNCHANGED <<Inputs, Persistence, x, modelsCreated, result, caller>>

\* utilisation >= sum(demand * x) / capacity, stored as
\* utilisation - sum((demand / capacity) * x) >= 0
UtilisationConstr(a) ==
    [kind |-> "utilisation", key |-> <<a[1], a[2]>>,
     coef |-> [k \in DOMAIN ArcLoad(a) |-> Frac(0 - Num(ArcLoad(a)[k]), G.capacity[a])],
     ucoef |-> 1, sense |-> ">=", rhs |-> 0]

UtilisationConstrs == [k \in 1 .. Len(EdgeList) |-> UtilisationConstr(EdgeList[k])]

UtilisationVar == [kind |-> "max_utilisation", key |-> <<>>, lb |-> 0, ub |-> GRB_INFINITY]

\* the constraints of the objective replace those of the model
SetObjectiveMaxUtilisation_Replace ==
    /\ pc = "objective"
    /\ objective = "max_utlilization"
    /\ model' = [model EXCEPT
                    !.vars = Append(@, UtilisationVar),
                    !.constrs = UtilisationConstrs,
                    !.obj = <<[sense |-> "MINIMIZE", coef |-> <<>>, ucoef |-> 1]>>]
    /\ pc' = "optimize"
    /\ UNCHANGED <<Inputs, Persistence, x, modelsCreated, result, caller>>

SetObjectiveMaxUtilisation ==
    /\ pc = "objective"
    /\ objective = "max_utlilization"
    /\ model' = [model EXCEPT
                    !.vars = Append(@, UtilisationVar),
                    !.constrs = @ \o UtilisationConstrs,
                    !.obj = <<[sense |-> "MINIMIZE", coef |-> <<>>, ucoef |-> 1]>>]
    /\ pc' = "optimize"
    /\ UNCHANGED <<Inputs, Persistence, x, modelsCreated, result, caller>>

\* sum over the arcs of (sum(demand * x) / capacity), / G.number_of_edges()
AvgCoef(k) ==
    Frac(traffic_demand[KeyDemand(k)], G.capacity[KeyArc(k)] * number_of_edges)

SetObjectiveAvgUtilisation ==
    /\ pc = "objective"
    /\ objective = "avg_utilisation"
    /\ IF number_of_edges = 0
       THEN /\ result' = Raise("ZeroDivisionError")
            /\ pc' = "done"
            /\ UNCHANGED model
       ELSE /\ model' = [model EXCEPT !.obj =
                            <<[sense |-> "MINIMIZE", coef |-> [k \in x |-> AvgCoef(k)],
                               ucoef |-> 0]>>]
            /\ pc' = "optimize"
            /\ UNCHANGED result
    /\ UNCHANGED <<Inputs, Persistence, x, modelsCreated, caller>>

\* else: raise ValueError("Fonction objectif non reconnue")
RaiseUnrecognised ==
    /\ pc = "objective"
    /\ objective \notin CodeObjectives
    /\ result' = Raise("ValueError")
    /\ pc' = "done"
    /\ UNCHANGED <<Inputs, Persistence, x, model, modelsCreated, caller>>

\* ------------------------------------------------------------ the LP engine
EqualityConstrs(m) == {c \in Range(m.constrs) : c.sense = "=="}

\* the point where every variable is 0 satisfies every constraint
ZeroPointFeasible(m) ==
    \A k \in DOMAIN m.constrs :
        LET c == m.constrs[k]
        IN CASE c.sense = "==" -> c.rhs = 0
             [] c.sense = "<=" -> c.rhs >= 0
             [] OTHER -> c.rhs <= 0

\* s can be the set of the variables with a positive value in a point that
\* satisfies the equality constraints (all variables are >= 0)
SupportConsistent(m, s) ==
    \A c \in EqualityConstrs(m) :
        LET pos == \E k \in s \cap DOMAIN c.coef : Num(c.coef[k]) > 0
            neg == \E k \in s \cap DOMAIN c.coef : Num(c.coef[k]) < 0
        IN IF c.rhs > 0 THEN pos ELSE pos <=> neg

\* sign of the objective in a point of support s: every coefficient is
\* >= 0, and the minimised utilisation is the largest load / capacity
ObjValSign(m, s) ==
    LET o == m.obj[1]
    IN IF \/ \E k \in s \cap DOMAIN o.coef : Num(o.coef[k]) > 0
          \/ o.ucoef > 0 /\ s # {}
       THEN "positive" ELSE "zero"

\* supports an optimal point can have: where the zero point is feasible
\* the optimal value is 0
OptimalSupports(m) ==
    {s \in SUBSET x : /\ SupportConsistent(m, s)
                      /\ ZeroPointFeasible(m) => ObjValSign(m, s) = "zero"}

RECURSIVE SumCoef(_, _)
\* value of the flow terms of c in the point that is 1 on s and 0 elsewhere
SumCoef(c, s) ==
    IF s = {} THEN 0
    ELSE LET k == CHOOSE k \in s : TRUE
         IN (IF k \in DOMAIN c.coef THEN Num(c.coef[k]) ELSE 0) + SumCoef(c, s \ {k})

\* some point with every flow variable at 0 or 1 satisfies the conservation
\* and capacity constraints (a constraint on the utilisation variable, which
\* has no upper bound, excludes nothing)
IntegralPointFeasible(m) ==
    \E s \in SUBSET x :
        \A n \in DOMAIN m.constrs :
            LET c == m.constrs[n]
            IN c.ucoef = 0 =>
                  IF c.sense = "==" THEN SumCoef(c, s) = c.rhs
                  ELSE SumCoef(c, s) <= c.rhs

\* OPTIMAL needs a point that satisfies the constraints, INFEASIBLE that
\* there is none; UNBOUNDED and OTHER (limits, numerical or resource
\* failure) are statuses the engine may report for any model
SolverStatuses(m) ==
    {"UNBOUNDED", "OTHER"}
        \cup (IF OptimalSupports(m) # {} THEN {"OPTIMAL"} ELSE {})
        \cup (IF IntegralPointFeasible(m) THEN {} ELSE {"INFEASIBLE"})

OptimizeCount(m) == m.optimizeCalls + 1

\* model.optimize()
Optimize ==
    /\ pc = "optimize"
    /\ \E st \in SolverStatuses(model) :
          model' = [model EXCEPT !.status = st, !.optimizeCalls = OptimizeCount(model)]
    /\ pc' = "interpret"
    /\ UNCHANGED <<Inputs, Persistence, x, modelsCreated, result, caller>>

\* ------------------------------------------------- interpreting the status
InfeasibleResult == ReturnNone

\* the infeasible model is optimised a second time
ReturnInfeasible_Resolve ==
    /\ pc = "interpret"
    /\ model.status = "INFEASIBLE"
    /\ model' = [model EXCEPT !.iisCalls = @ + 1, !.optimizeCalls = @ + 1]
    /\ result' = InfeasibleResult
    /\ pc' = "done"
    /\ UNCHANGED <<Inputs, Persistence, x, modelsCreated, caller>>

\* if model.status == GRB.INFEASIBLE: computeIIS, write, return None
ReturnInfeasible ==
    /\ pc = "interpret"
    /\ model.status = "INFEASIBLE"
    /\ model' = [model EXCEPT !.iisCalls = @ + 1]
    /\ result' = InfeasibleResult
    /\ pc' = "done"
    /\ UNCHANGED <<Inputs, Persistence, x, modelsCreated, caller>>

\* if model.status == GRB.OPTIMAL: the entries of x with var.x > 0, ObjVal
ExtractSolution ==
    /\ pc = "interpret"
    /\ model.status = "OPTIMAL"
    /\ \E s \in OptimalSupports(model) :
          result' = ReturnPair(s, ObjValSign(model, s))
    /\ pc' = "done"
    /\ UNCHANGED <<Inputs, Persistence, x, model, modelsCreated, caller>>

\* else: raise Exception("Pas de solution optimale trouvee")
RaiseNoOptimal ==
    /\ pc = "interpret"
    /\ model.status \notin {"INFEASIBLE", "OPTIMAL"}
    /\ result' = Raise("Exception")
    /\ pc' = "done"
    /\ UNCHANGED <<Inputs, Persistence, x, model, modelsCreated, caller>>

\* ------------------------------------------------------------- the caller
\* solution, optimal_value = solve_linear_program(...); print both
TestProgramUnpack ==
    /\ pc = "done"
    /\ caller = "calling"
    /\ result.how = "return"
    /\ caller' = IF result.tag = "pair" THEN "printed" ELSE "TypeError"
    /\ UNCHANGED <<Inputs, Persistence, pc, x, model, modelsCreated, result>>

\* an exception raised by solve_linear_program leaves test_program
TestProgramPropagate ==
    /\ pc = "done"
    /\ caller = "calling"
    /\ result.how = "raise"
    /\ caller' = "propagated"
    /\ UNCHANGED <<Inputs, Persistence, pc, x, model, modelsCreated, result>>

Next ==
    \/ CreateModel
    \/ AddVariables
    \/ AddConservation
    \/ AddCapacity
    \/ SetObjectiveCost
    \/ SetObjectiveMaxUtilisation
    \/ SetObjectiveAvgUtilisation
    \/ RaiseUnrecognised
    \/ Optimize
    \/ ReturnInfeasible
    \/ ExtractSolution
    \/ RaiseNoOptimal
    \/ TestProgramUnpack
    \/ TestProgramPropagate

Spec == Init /\ [][Next]_vars

\* ------------------------------------------------- save_to_csv, read_instance
\* the numbers an instance holds
Literals == 0 .. (MaxNodes + MaxNodeId + MaxCapacity + MaxCost + MaxVolume)

Digit == <<"0", "1", "2", "3", "4", "5", "6", "7", "8", "9">>

RECURSIVE IntStr(_)
\* str(n) of an int, as csv.writer writes a cell that is not a string
IntStr(n) == IF n < 10 THEN Digit[n + 1] ELSE IntStr(n \div 10) \o Digit[(n % 10) + 1]

\* str(c) of a float with an integral value: the cost, drawn by random.uniform
FloatStr(c) == IntStr(c) \o ".0"

\* int(cell) succeeds on the decimal numerals, and raises ValueError on any
\* other of the cells of the file ("1.0", "entry", ...)
IsInt(cell) == \E n \in Literals : IntStr(n) = cell
IntOf(cell) == CHOOSE n \in Literals : IntStr(n) = cell

\* float(cell) succeeds on the numerals with or without a fractional part
IsFloat(cell) == \E n \in Literals : cell \in {IntStr(n), FloatStr(n)}
FloatOf(cell) == CHOOSE n \in Literals : cell \in {IntStr(n), FloatStr(n)}

\* the lists S that random.sample(nodes, S_size) can give on the graph g
Subsets(g) ==
    {<<>>} \cup {<<u>> : u \in g.nodes}
           \cup {<<p[1], p[2]>> : p \in OrderedPairs(g.nodes)}

\* writer.writerow([u, v, G[u][v]['capacity'], G[u][v]['cost']])
ArcRow(a) == <<IntStr(a[1]), IntStr(a[2]), IntStr(G.capacity[a]), FloatStr(G.cost[a])>>

\* writer.writerow([i, j, demand])
DemandRow(d) == <<IntStr(d[1]), IntStr(d[2]), IntStr(traffic_demand[d])>>

\* writer.writerow(S)
SubsetRow == [k \in DOMAIN S |-> IntStr(S[k])]

\* the rows of the file that save_to_csv writes; writerow([]) leaves a
\* blank line, which the reader gives back as the empty row
CsvRows ==
    LET E == EdgeList
        D == DemandList
    IN  <<<<"Source", "Target", "Capacity", "Cost">>>>
        \o [k \in DOMAIN E |-> ArcRow(E[k])]
        \o << <<>>, <<"entry", "Target", "Traffic Demand">> >>
        \o [k \in DOMAIN D |-> DemandRow(D[k])]
        \o << <<>>, <<"Subset S">> >>
        \o <<SubsetRow>>

Solving == <<objective, pc, x, model, modelsCreated, result, caller>>

\* an instance to save: a graph, a list S of its nodes and a demand mapping
InitCsv ==
    /\ G \in Graphs
    /\ traffic_demand \in TrafficDemands
    /\ S \in Subsets(G) /\ Len(S) <= MaxSubset
    /\ file = <<>>
    /\ cpc = "save"
    /\ section = "arcs"
    /\ rowNo = 1
    /\ readG = EmptyGraph
    /\ readDemand = <<>>
    /\ readS = <<>>
    /\ readResult = [how |-> "pending", tag |-> ""]
    /\ objective = "cost"
    /\ pc = "call"
    /\ x = {}
    /\ model = EmptyModel
    /\ modelsCreated = 0
    /\ result = Pending
    /\ caller = "calling"

\* save_to_csv(G, S, traffic_demand, filename)
SaveToCsv ==
    /\ cpc = "save"
    /\ file' = CsvRows
    /\ cpc' = "open"
    /\ UNCHANGED <<G, traffic_demand, S, section, rowNo, readG, readDemand,
                   readS, readResult, Solving>>

\* read_instance(filename), up to the loop: G = nx.DiGraph(),
\* traffic_demand = {}, S = [], section = "arcs"
ReadOpen ==
    /\ cpc = "open"
    /\ readG' = EmptyGraph
    /\ readDemand' = <<>>
    /\ readS' = <<>>
    /\ section' = "arcs"
    /\ rowNo' = 1
    /\ cpc' = "rows"
    /\ UNCHANGED <<G, traffic_demand, S, file, readResult, Solving>>

\* continue: on to the next row
Continue ==
    /\ rowNo' = rowNo + 1
    /\ UNCHANGED <<cpc, readG, readDemand, readS, readResult>>

\* an exception leaves the loop
Fail(exc) ==
    /\ readResult' = [how |-> "raise", tag |-> exc]
    /\ cpc' = "raised"
    /\ UNCHANGED <<rowNo, readG, readDemand, readS>>

\* G.add_edge(int(row[0]), int(row[1]), capacity=float(row[2]), cost=float(row[3]))
AddEdge(row) ==
    IF ~(IsInt(row[1]) /\ IsInt(row[2]) /\ IsFloat(row[3]) /\ IsFloat(row[4]))
    THEN Fail("ValueError")
    ELSE LET a == <<IntOf(row[1]), IntOf(row[2])>>
         IN  /\ readG' = [nodes    |-> readG.nodes \cup {a[1], a[2]},
                          arcs     |-> readG.arcs \cup {a},
                          capacity |-> (a :> FloatOf(row[3])) @@ readG.capacity,
                          cost     |-> (a :> FloatOf(row[4])) @@ readG.cost]
             /\ rowNo' = rowNo + 1
             /\ UNCHANGED <<cpc, readDemand, readS, readResult>>

\* traffic_demand[(int(row[0]), int(row[1]))] = int(row[2])
AddDemand(row) ==
    IF ~(IsInt(row[1]) /\ IsInt(row[2]) /\ IsInt(row[3]))
    THEN Fail("ValueError")
    ELSE /\ readDemand' = (<<IntOf(row[1]), IntOf(row[2])>> :> IntOf(row[3])) @@ readDemand
         /\ rowNo' = rowNo + 1
         /\ UNCHANGED <<cpc, readG, readS, readResult>>

\* S = list(map(int, row)); break
SetSubset(row) ==
    IF \E k \in DOMAIN row : ~IsInt(row[k])
    THEN Fail("ValueError")
    ELSE /\ readS' = [k \in DOMAIN row |-> IntOf(row[k])]
         /\ cpc' = "return"
         /\ UNCHANGED <<rowNo, readG, readDemand, readResult>>

\* one pass of the loop over the rows of the file.  Only the "Source" and
\* the "Subset S" rows end in continue: a row whose first cell is "entry"
\* sets the section and goes on to the section's branch
ReadRow ==
    /\ cpc = "rows"
    /\ rowNo <= Len(file)
    /\ LET row == file[rowNo]
       IN  IF row = <<>> \/ row[1] = "Source"
           THEN Continue /\ UNCHANGED section
           ELSE IF row[1] = "Subset S"
           THEN Continue /\ section' = "subset"
           ELSE /\ section' = (IF row[1] = "entry" THEN "traffic" ELSE section)
                /\ IF section' = "arcs"
                   THEN IF Len(row) < 4 THEN Fail("IndexError") ELSE AddEdge(row)
                   ELSE IF section' = "traffic"
                   THEN IF Len(row) < 3 THEN Fail("IndexError") ELSE AddDemand(row)
                   ELSE SetSubset(row)
    /\ UNCHANGED <<G, traffic_demand, S, file, Solving>>

\* the with block closes the file and the call ends: by return G, S,
\* traffic_demand after the break or the last row, or by the exception
ReadEnd ==
    /\ \/ cpc \in {"return", "raised"}
       \/ cpc = "rows" /\ rowNo > Len(file)
    /\ readResult' = (IF cpc = "raised" THEN readResult
                      ELSE [how |-> "return", tag |-> "G, S, traffic_demand"])
    /\ cpc' = "done"
    /\ UNCHANGED <<G, traffic_demand, S, file, section, rowNo, readG,
                   readDemand, readS, Solving>>

NextCsv ==
    \/ SaveToCsv
    \/ ReadOpen
    \/ ReadRow
    \/ ReadEnd

SpecCsv == InitCsv /\ [][NextCsv]_vars

\* ------------------------------------------------------------------ claims
Done == pc = "done"
Solved == model.optimizeCalls > 0

\* every comparison handed to addConstr holds a variable: every node has an
\* arc when there is a demand, and there is a demand when there is an arc.
\* On these instances the build does not depend on what the backend does
\* with a Python bool; the statements refuted below are read on them.
ConstraintsHaveVariables ==
    FirstBool(ConservationConstrs) = 0 /\ FirstBool(CapacityConstrs) = 0

\* state of the result interpreter, read off the way the call ended
InterpreterState ==
    CASE result = Pending /\ pc \in {"optimize", "interpret"} -> "BUILT"
      [] result.how = "return" /\ result.tag = "pair" -> "SOLVED_OPTIMAL"
      [] result.how = "return" /\ result.tag = "None" -> "SOLVED_INFEASIBLE"
      [] result.how = "raise" /\ result.tag = "Exception" -> "SOLVER_ERROR"
      [] OTHER -> "BUILDING"

TerminalStates == {"SOLVED_OPTIMAL", "SOLVED_INFEASIBLE", "SOLVER_ERROR"}

\* C1: whatever terminal status optimize() reports, the call ends by
\* returning a value (it never raises), and on UNBOUNDED or OTHER the value
\* returned is not the one returned for an infeasible model.
C1_SolveOutcomeIsReturned ==
    (Done /\ Solved /\ ConstraintsHaveVariables) =>
        /\ result.how = "return"
        /\ model.status \in {"UNBOUNDED", "OTHER"} => result # InfeasibleResult

\* C2: with a selector that is not recognized the call ends with the
\* unsupported-objective error, and then the model holds no variable and no
\* constraint and optimize() was not called.
C2_UnsupportedFailsBeforeBuild ==
    /\ (Done /\ objective \in UnknownObjectives) =>
           /\ result.how = "raise"
           /\ model.optimizeCalls = 0
    /\ (result = Raise("ValueError") /\ objective \in UnknownObjectives
           /\ ConstraintsHaveVariables) =>
           /\ model.vars = <<>>
           /\ model.constrs = <<>>

\* a demand names a node that the graph does not have
InvalidInstance ==
    \E d \in DOMAIN traffic_demand : d[1] \notin G.nodes \/ d[2] \notin G.nodes

\* C3: a demand with an endpoint outside the graph makes the build fail with
\* an error: optimize() is never called and the call never ends with a
\* result of the solver.
C3_InvalidInstanceRejected ==
    (InvalidInstance /\ ConstraintsHaveVariables) =>
        /\ model.optimizeCalls = 0
        /\ Done => result.how = "raise"

\* C4: on INFEASIBLE the conflict set is computed and the value returned is
\* not None, so that the caller's unpacking never fails with a TypeError.
C4_InfeasibleIsTagged ==
    /\ (Done /\ model.status = "INFEASIBLE" /\ ConstraintsHaveVariables) =>
           /\ model.iisCalls = 1
           /\ result.how = "return"
           /\ result.tag # "None"
    /\ ConstraintsHaveVariables => caller # "TypeError"

C5_StateOK ==
    /\ modelsCreated <= 1
    /\ model.optimizeCalls <= 1
    /\ pc = "optimize" =>
          /\ InterpreterState = "BUILT"
          /\ modelsCreated = 1
          /\ model.optimizeCalls = 0
          /\ model.status = "LOADED"
    /\ InterpreterState \in TerminalStates =>
          /\ Done
          /\ model.optimizeCalls = 1
          /\ InterpreterState =
                (CASE model.status = "OPTIMAL" -> "SOLVED_OPTIMAL"
                   [] model.status = "INFEASIBLE" -> "SOLVED_INFEASIBLE"
                   [] OTHER -> "SOLVER_ERROR")
    /\ (Done /\ Solved) => InterpreterState \in TerminalStates

C5_StepOK ==
    InterpreterState \in TerminalStates =>
        /\ InterpreterState' = InterpreterState
        /\ model' = model
        /\ result' = result

\* C5: a call creates one model, calls optimize() at most once and, once
\* optimize() was called, ends in exactly the interpreter state of the
\* status (OPTIMAL, INFEASIBLE, anything else); a state of the three, once
\* reached, is never left and the model is not touched again.
C5_SingleShot == []C5_StateOK /\ [][C5_StepOK]_vars

C5_Witness ==
    /\ InterpreterState = "SOLVED_INFEASIBLE"
    /\ model.optimizeCalls = 1
    /\ caller = "TypeError"

\* C6: none of the selectors of the design (cost, max_utilization,
\* avg_utilization) and none of those of the documentation of test_program
\* is rejected as unrecognized.
C6_DocumentedSelectorsAccepted ==
    (objective \in SpecObjectives \cup DocstringObjectives /\ ConstraintsHaveVariables) =>
        result # Raise("ValueError")
RECURSIVE SumSeq(_)
SumSeq(q) == IF q = <<>> THEN 0 ELSE Head(q) + SumSeq(Tail(q))

FlowKinds == {"flow_src", "flow_dst", "flow_mid"}
IsConservationOf(c, d) == c.kind \in FlowKinds /\ <<c.key[1], c.key[2]>> = d
ConservationOf(d) == SelectSeq(model.constrs, LAMBDA c : IsConservationOf(c, d))
CoefAt(c, k) == IF k \in DOMAIN c.coef THEN Num(c.coef[k]) ELSE 0
KeysOf(d) == {Key(d, a) : a \in G.arcs}
InGraph(d) == d[1] \in G.nodes /\ d[2] \in G.nodes
\* the demand has a constraint for every node of the graph
AllNodesConstrained(d) == Len(ConservationOf(d)) = Cardinality(G.nodes)

\* C7 as stated: for a demand with both endpoints in the graph, adding its
\* conservation constraints as they are written (outflow - inflow at the
\* origin, inflow - outflow elsewhere) cancels the coefficient of every
\* FlowVariable and the right-hand sides add up to 0.
C7_ConservationSumsToZero ==
    \A d \in DOMAIN traffic_demand :
        (InGraph(d) /\ AllNodesConstrained(d) /\ ConstraintsHaveVariables) =>
            LET cs == ConservationOf(d)
            IN /\ \A k \in KeysOf(d) : SumSeq([n \in DOMAIN cs |-> CoefAt(cs[n], k)]) = 0
               /\ SumSeq([n \in DOMAIN cs |-> cs[n].rhs]) = 0

\* inflow - outflow orientation: the constraint of the origin is negated
Orientation(c) == IF c.kind = "flow_src" THEN -1 ELSE 1

\* C7 amended: for a demand with both endpoints in the graph, its
\* conservation constraints brought to one orientation (inflow - outflow at
\* every node, the origin's constraint negated, right-hand sides -1 at the
\* origin, +1 at the destination, 0 elsewhere) add up to zero: every
\* FlowVariable coefficient cancels and the right-hand sides net to 0.
C7_OrientedConservationSumsToZero ==
    \A d \in DOMAIN traffic_demand :
        (InGraph(d) /\ AllNodesConstrained(d)) =>
            LET cs == ConservationOf(d)
            IN /\ \A k \in KeysOf(d) :
                     SumSeq([n \in DOMAIN cs |-> Orientation(cs[n]) * CoefAt(cs[n], k)]) = 0
               /\ SumSeq([n \in DOMAIN cs |-> Orientation(cs[n]) * cs[n].rhs]) = 0

C7_Witness ==
    /\ pc = "capacity"
    /\ \E d \in DOMAIN traffic_demand :
          /\ InGraph(d) /\ AllNodesConstrained(d)
          /\ \E m \in G.nodes \ {d[1], d[2]} :
                /\ <<d[1], m>> \in G.arcs /\ <<m, d[2]>> \in G.arcs
                /\ \E n \in DOMAIN ConservationOf(d) :
                      LET c == ConservationOf(d)[n]
                      IN /\ c.kind = "flow_mid"
                         /\ CoefAt(c, Key(d, <<d[1], m>>)) = 1
                         /\ CoefAt(c, Key(d, <<m, d[2]>>)) = -1

\* C8: with an empty demand set the build creates no FlowVariable and raises
\* no error, the solver does not report INFEASIBLE, and an OPTIMAL solve
\* returns the empty solution with objective value 0, under the cost and
\* under the average-utilisation objective.
C8_EmptyDemandIsOptimalZero ==
    (DOMAIN traffic_demand = {} /\ objective \in {"cost", "avg_utilisation"}
        /\ ConstraintsHaveVariables) =>
        /\ x = {}
        /\ result.how = "raise" => result.tag = "Exception"
        /\ model.status # "INFEASIBLE"
        /\ (Done /\ model.status = "OPTIMAL") => result = ReturnPair({}, "zero")

CapacityOf(m) == SelectSeq(m.constrs, LAMBDA c : c.kind = "capacity")
\* the three shared phases of the build went through
Built ==
    pc \in {"objective", "optimize", "interpret"}
        \/ (Done /\ result # Raise("GurobiError"))
ObjectiveSet == model.obj # <<>>

\* C9: the built model has exactly one capacity constraint per arc, with
\* the arc's capacity as right-hand side and the demand's volume as
\* coefficient of each of the arc's FlowVariables; the cost objective has
\* volume * cost as coefficient of every FlowVariable; capacities and costs
\* read back from these coefficients are those of the input.
C9_CoefficientsRoundTrip ==
    Built =>
        LET cs == CapacityOf(model)
        IN /\ Len(cs) = Cardinality(G.arcs)
           /\ \A a \in G.arcs : Cardinality({n \in DOMAIN cs : cs[n].key = a}) = 1
           /\ \A n \in DOMAIN cs :
                 LET c == cs[n]
                 IN /\ c.key \in G.arcs
                    /\ c.sense = "<="
                    /\ c.rhs = G.capacity[c.key]
                    /\ DOMAIN c.coef = {Key(d, c.key) : d \in DOMAIN traffic_demand}
                    /\ \A d \in DOMAIN traffic_demand :
                          c.coef[Key(d, c.key)] = Frac(traffic_demand[d], 1)
           /\ [a \in G.arcs |-> cs[CHOOSE n \in DOMAIN cs : cs[n].key = a].rhs] = G.capacity
           /\ (objective = "cost" /\ ObjectiveSet) =>
                 LET o == model.obj[1]
                 IN /\ DOMAIN o.coef = {Key(d, a) : d \in DOMAIN traffic_demand, a \in G.arcs}
                    /\ \A d \in DOMAIN traffic_demand, a \in G.arcs :
                          /\ o.coef[Key(d, a)] = Frac(traffic_demand[d] * G.cost[a], 1)
                          /\ Num(o.coef[Key(d, a)]) \div traffic_demand[d] = G.cost[a]
                          /\ Num(o.coef[Key(d, a)]) % traffic_demand[d] = 0

C9_Witness ==
    /\ pc = "optimize"
    /\ objective = "cost"
    /\ Cardinality(DOMAIN traffic_demand) = 2
    /\ \E d1, d2 \in DOMAIN traffic_demand : traffic_demand[d1] # traffic_demand[d2]
    /\ \E a, b \in G.arcs :
          /\ G.capacity[a] # G.capacity[b]
          /\ G.cost[a] # G.cost[b]
          /\ G.capacity[a] # G.cost[a]

FlowVarsOf(m) == SelectSeq(m.vars, LAMBDA v : v.kind = "x")
AuxVarsOf(m) == SelectSeq(m.vars, LAMBDA v : v.kind # "x")
SharedConstrsOf(m) == SelectSeq(m.constrs, LAMBDA c : c.kind # "utilisation")
ExtraConstrsOf(m) == SelectSeq(m.constrs, LAMBDA c : c.kind = "utilisation")

C10_StateOK ==
    /\ pc \notin {"call", "variables"} =>
          /\ Len(FlowVarsOf(model)) =
                Cardinality(DOMAIN traffic_demand) * Cardinality(G.arcs)
          /\ {v.key : v \in Range(FlowVarsOf(model))} =
                {Key(d, a) : d \in DOMAIN traffic_demand, a \in G.arcs}
          /\ \A v \in Range(FlowVarsOf(model)) : v.lb = 0 /\ v.ub = 1
    /\ (Built /\ ObjectiveSet) =>
          /\ SharedConstrsOf(model) = ConservationConstrs \o CapacityConstrs
          /\ IF objective = "max_utlilization"
             THEN /\ Len(AuxVarsOf(model)) = 1
                  /\ AuxVarsOf(model)[1].lb = 0
                  /\ Len(ExtraConstrsOf(model)) = Cardinality(G.arcs)
                  /\ \A a \in G.arcs :
                        Cardinality({n \in DOMAIN ExtraConstrsOf(model) :
                                        ExtraConstrsOf(model)[n].key = a}) = 1
             ELSE /\ AuxVarsOf(model) = <<>>
                  /\ ExtraConstrsOf(model) = <<>>

C10_StepOK ==
    pc = "objective" =>
        /\ x' = x
        /\ FlowVarsOf(model') = FlowVarsOf(model)
        /\ SharedConstrsOf(model') = SharedConstrsOf(model)
        /\ objective # "max_utlilization" =>
              /\ model'.vars = model.vars
              /\ model'.constrs = model.constrs

\* C10: the FlowVariables (one per demand and arc, bounds [0, 1]) and the
\* conservation and capacity constraints depend on the graph and on the
\* demands only and no objective changes them; the maximum-utilisation
\* objective adds exactly one variable with lower bound 0 and one
\* constraint per arc, the other two objectives add nothing.
C10_ObjectiveLeavesSharedModel == []C10_StateOK /\ [][C10_StepOK]_vars

C10_Witness ==
    /\ pc = "optimize"
    /\ objective = "max_utlilization"
    /\ Cardinality(G.arcs) = 2
    /\ Cardinality(DOMAIN traffic_demand) = 2
    /\ Len(ExtraConstrsOf(model)) = 2
    /\ Len(AuxVarsOf(model)) = 1
    /\ Len(FlowVarsOf(model)) = 4

\* ---- C11
Saved == G.arcs # {} /\ DOMAIN traffic_demand # {}
ReadDone == cpc = "done"

\* the row at which the reader stopped with an exception is a header row
HeaderParsedAsRecord ==
    /\ cpc \in {"raised", "done"}
    /\ readResult.how = "raise"
    /\ rowNo <= Len(file)
    /\ file[rowNo] # <<>>
    /\ file[rowNo][1] \in {"Source", "entry", "Subset S"}

\* C11: for every instance with at least one arc and a non-empty demand
\* mapping, read_instance applied to the file written by save_to_csv ends
\* without error and returns the same arcs with the same capacities and
\* costs, the same demand mapping and the same subset S, and no header row
\* is parsed as a data record
C11_PersistenceRoundTrip ==
    Saved =>
        /\ ~HeaderParsedAsRecord
        /\ ReadDone =>
              /\ readResult.how = "return"
              /\ readG.arcs = G.arcs
              /\ readG.capacity = G.capacity
              /\ readG.cost = G.cost
              /\ readDemand = traffic_demand
              /\ readS = S
====
